---- MODULE Spec2Model ----
(***************************************************************************)
(* State-machine model of the traceroot SDK core:                          *)
(*   - traceroot/tracer.py      the tracing decorator, the deferred span   *)
(*                              context and its registry, init/shutdown    *)
(*   - traceroot/credentials.py the credential manager                     *)
(*   - traceroot/logger.py      the logger, its cloud handler and rotation *)
(*                                                                         *)
(* External collaborators (the OpenTelemetry span and scope, the           *)
(* verification endpoint, the watchtower handler) are modelled at their    *)
(* boundary; where the code handles a failure of one of them, the failure  *)
(* is a nondeterministic input of the action.                              *)
(***************************************************************************)
EXTENDS Integers, Sequences, FiniteSets, TLC

\* ------------------------------------------------------------------ bounds
MaxCalls == 1          \* traced calls made in one behaviour
MaxItems == 2          \* items a wrapped async generator can yield
MaxClock == 2          \* time.time() values 0..MaxClock (seconds)
MaxAge == 1            \* max_age_seconds arguments 0..MaxAge of a sweep
MaxInits == 2          \* tracer providers created in one behaviour
MaxUtcTicks == 1       \* clock advances of the credential clock
TickMinutes == 90      \* minutes per advance of the credential clock
MaxHandlers == 2       \* logging handlers constructed in one behaviour
MaxId == 17            \* the largest trace or span identifier

\* ------------------------------------------------------ program constants
RefreshMarginMinutes == 30     \* needs_refresh: timedelta(minutes=30)
DefaultExpiryMinutes == 720    \* fallback expiry: timedelta(hours=12)

Calls == 1..MaxCalls

VARIABLES
    \* traceroot/tracer.py
    tracer_provider,   \* _tracer_provider: 0 is None, k > 0 the k-th provider
    providers,         \* number of TracerProvider instances created so far
    clock,             \* time.time()
    call,              \* per traced call: wrapper position, span, scope, context
    _deferred_spans,   \* the registry: calls whose context has a live weakref
    \* traceroot/config.py: the TraceRootConfig shared by tracer and logger
    config,
    \* traceroot/credentials.py
    _cached_credentials,
    _credentials_expiry,
    utc_now,           \* datetime.now(timezone.utc), in minutes
    \* traceroot/logger.py
    handlers,          \* every logging handler constructed so far, by number
    attached,          \* handlers attached to each underlying logging.Logger
    _cloudwatch_handler,   \* the global cloud handler: 0 is None
    _global_logger,    \* the global TraceRootLogger: "None" or its logger name
    loggers,           \* names of the TraceRootLogger instances constructed
    op                 \* the latest logger/credential operation: its name,
                       \* result, requests to the verification endpoint and
                       \* handler events, in order

tracerVars == <<tracer_provider, providers, clock, call, _deferred_spans>>
credVars == <<_cached_credentials, _credentials_expiry>>
loggerVars == <<handlers, attached, _cloudwatch_handler, _global_logger,
                loggers, op>>
vars == <<tracer_provider, providers, clock, call, _deferred_spans, config,
          _cached_credentials, _credentials_expiry, utc_now, handlers,
          attached, _cloudwatch_handler, _global_logger, loggers, op>>

\* ------------------------------------------------------- spans and scopes

\* A span of the tracing backend that was never started.
NoSpan == [state |-> "none", status |-> "unset", exc |-> "none", attrs |-> {}]

\* A deferred span context that was never created.
NoCtx == [st |-> "none", closed |-> FALSE, created_at |-> 0]

\* No generator returned.
NoGen == [state |-> "none", wrapped |-> FALSE, yielded |-> 0, got |-> << >>, ended |-> "none"]

\* A call slot before the call is made.
IdleCall == [pc |-> "idle", shape |-> "none", traced |-> FALSE,
             trace_return_value |-> FALSE, raised |-> "none",
             events |-> << >>, span |-> NoSpan, exits |-> 0,
             ctx |-> NoCtx, gen |-> NoGen]

\* Exception classes a wrapped function or generator can raise.
Raised == {"Exception", "BaseException"}

\* How ScopedSpan.__exit__ can end when called from close_span: normally, with
\* ValueError("... was created in a different Context"), with another
\* ValueError, or with another Exception.  When it raises, the backend may or
\* may not have ended the span already.
ExitOutcomes ==
    {[raises |-> "none", ended |-> TRUE]} \cup
    {[raises |-> r, ended |-> e] :
        r \in {"different_context", "ValueError", "Exception"}, e \in BOOLEAN}

\* A wrong is_initialized(): the wrappers never pass a call through.
is_initialized_always == TRUE

is_initialized == tracer_provider # 0

is_recording(sp) == sp.state = "recording"

\* tracer.start_as_current_span(name).__enter__(): a recording span.
start_span(cs) ==
    [cs EXCEPT !.span = [NoSpan EXCEPT !.state = "recording"],
               !.events = Append(@, "open")]

set_attribute(sp, name) ==
    IF is_recording(sp) THEN [sp EXCEPT !.attrs = @ \cup {name}] ELSE sp

\* span.end()
end_span(cs) ==
    IF is_recording(cs.span)
    THEN [cs EXCEPT !.span.state = "ended", !.events = Append(@, "close")]
    ELSE cs

\* ScopedSpan.__exit__(exc_type, exc_val, exc_tb) ending normally: the backend
\* records a passed exception on a recording span, then ends the span.
scope_exit(cs, exc) ==
    LET sp == cs.span
        sp1 == IF exc # "none" /\ is_recording(sp)
               THEN [sp EXCEPT !.status = "error", !.exc = exc]
               ELSE sp
    IN end_span([cs EXCEPT !.span = sp1, !.exits = @ + 1])

\* ---------------------------------------------------- _DeferredSpanContext

\* _DeferredSpanContext.__init__: not closed, stamped with the clock, and a
\* weak reference added to the registry (the caller adds the call to
\* _deferred_spans).
new_deferred_context(cs) ==
    [cs EXCEPT !.ctx = [st |-> "live", closed |-> FALSE, created_at |-> clock]]

\* close_span without the closed guard: every call exits the scope again.
close_span_unguarded(cs, exc, out) ==
    LET sp1 == IF is_recording(cs.span)
               THEN (IF exc # "none"
                     THEN [cs.span EXCEPT !.status = "error", !.exc = exc]
                     ELSE [cs.span EXCEPT !.status = "ok"])
               ELSE cs.span
        c1 == [cs EXCEPT !.span = sp1]
    IN [scope_exit(c1, exc) EXCEPT !.ctx.closed = TRUE]

\* The handler of close_span caught the ValueError of a scope exit in a
\* different context.
detach_failed(cs) == [cs EXCEPT !.events = Append(@, "detach_failed")]

\* A close_span that only marks the context closed when the scope exit
\* fails in a different context, without ending the span itself.
close_span_no_end(cs, exc, out) ==
    IF cs.ctx.closed
    THEN cs
    ELSE
      LET failed == LET c2 == [cs EXCEPT !.exits = @ + 1]
                    IN IF out.ended THEN end_span(c2) ELSE c2
      IN IF out.raises = "none"
         THEN [scope_exit(cs, exc) EXCEPT !.ctx.closed = TRUE]
         ELSE IF out.raises = "different_context"
         THEN [detach_failed(failed) EXCEPT !.ctx.closed = TRUE]
         ELSE [end_span(failed) EXCEPT !.ctx.closed = TRUE]

\* _DeferredSpanContext.close_span(exc_type, exc_val, exc_tb)
close_span(cs, exc, out) ==
    IF cs.ctx.closed
    THEN cs
    ELSE
      LET sp1 == IF is_recording(cs.span)
                 THEN (IF exc # "none"
                       THEN [cs.span EXCEPT !.status = "error", !.exc = exc]
                       ELSE [cs.span EXCEPT !.status = "ok"])
                 ELSE cs.span
          c1 == [cs EXCEPT !.span = sp1]
          \* the scope exit raised: it counts as an exit call, and the span
          \* is ended only if the backend got that far
          failed == LET c2 == [c1 EXCEPT !.exits = @ + 1]
                    IN IF out.ended THEN end_span(c2) ELSE c2
      IN CASE out.raises = "none" ->
                [scope_exit(c1, exc) EXCEPT !.ctx.closed = TRUE]
           [] out.raises = "different_context" ->
                [end_span(detach_failed(failed)) EXCEPT !.ctx.closed = TRUE]
           [] out.raises = "ValueError" ->
                [failed EXCEPT !.ctx.closed = TRUE]
           [] OTHER ->
                [end_span(failed) EXCEPT !.ctx.closed = TRUE]

\* ------------------------------------------------------- the traced calls

\* The identity attributes every wrapper sets on a fresh span ("hash" only
\* outside local mode).  Captured parameters are written in the same block;
\* the failure of either write is the attrFails input of the wrappers.
identity_attributes(cs, local_mode) ==
    [cs EXCEPT !.span.attrs =
        @ \cup {"service_name", "service_environment", "telemetry_sdk_language"}
          \cup (IF local_mode THEN {} ELSE {"hash"})]

\* The wrapper hands back the wrapped function's result.
returns(cs) == [cs EXCEPT !.pc = "returned", !.events = Append(@, "return")]

\* The wrapper raises: the wrapped function's own exception class, or
\* "instrumentation" for an error of the tracing code itself.
raises(cs, exc) ==
    [cs EXCEPT !.pc = "raised", !.raised = exc, !.events = Append(@, "raise")]

\* function(*args, **kwargs) is invoked.
invoke(cs) == [cs EXCEPT !.events = Append(@, "call")]

\* An async generator object, wrapped by _trace_async_generator or handed
\* out as it is.
new_generator(cs, wrapped) ==
    [cs EXCEPT !.gen = [state |-> "created", wrapped |-> wrapped,
                        yielded |-> 0, got |-> << >>, ended |-> "none"]]

\* Where span creation can fail: nowhere, before _span_name is bound
\* (get_tracer or options.get_span_name raises), in the call of
\* tracer.start_as_current_span, or when the span context is entered.
CreateFaults == {"none", "name", "start", "enter"}

\* _trace_sync_wrapper, with the _trace context manager it runs under: one
\* step, a synchronous call does not suspend.  capture is
\* options.trace_return_value.
sync_wrapper(cs, local_mode, capture, createFails, attrFails, captureFails, outcome) ==
    LET c0 == [cs EXCEPT !.shape = "sync"]
        finish(c) == IF outcome = "return" THEN returns(c)
                     ELSE raises(c, outcome)
    IN IF ~is_initialized \/ createFails = "start"
       THEN finish(invoke(c0))
       ELSE IF createFails = "name"
       THEN \* the handler of _trace reads _span_name, which is unbound
            raises(c0, "instrumentation")
       ELSE IF createFails = "enter"
       THEN \* "with _span as span" is outside the try of _trace
            raises(c0, "instrumentation")
       ELSE
         LET c1 == start_span(c0)
         IN IF attrFails
            THEN \* the error leaves "with _span as span" before the yield
                 raises(scope_exit(c1, "Exception"), "instrumentation")
            ELSE
              LET c2 == invoke(identity_attributes(c1, local_mode))
              IN IF outcome # "return"
                 THEN raises(scope_exit(c2, outcome), outcome)
                 ELSE IF capture /\ captureFails
                 THEN raises(scope_exit(c2, "Exception"), "instrumentation")
                 ELSE returns(scope_exit(
                        IF capture
                        THEN [c2 EXCEPT !.span = set_attribute(@, "return")]
                        ELSE c2, "none"))

\* _trace_async_wrapper up to its first await of the wrapped function.
async_wrapper_start(cs, local_mode, trace_return_value, createFails, attrFails) ==
    LET c0 == [cs EXCEPT !.shape = "async", !.pc = "awaiting"]
    IN IF ~is_initialized \/ createFails \in {"start", "enter"}
       THEN invoke(c0)
       ELSE IF createFails = "name"
       THEN \* the handler reads _span_name, which is unbound
            raises(c0, "instrumentation")
       ELSE
         LET c1 == start_span(c0)
         IN IF attrFails
            THEN invoke(c1)     \* except Exception: await function() untraced
            ELSE invoke([identity_attributes(c1, local_mode)
                            EXCEPT !.traced = TRUE,
                                   !.trace_return_value = trace_return_value])

\* _trace_async_wrapper from the completion of the awaited function on.
\* kind is what the function returned: "value", or "stream" for an async
\* generator or an object holding one.
async_wrapper_finish(cs, outcome, kind, captureFails) ==
    IF ~cs.traced
    THEN IF outcome # "return" THEN raises(cs, outcome)
         ELSE IF kind = "stream"
         THEN returns(new_generator(cs, FALSE))
         ELSE returns(cs)
    ELSE IF outcome = "Exception"
    THEN raises(scope_exit(cs, outcome), outcome)
    ELSE IF outcome = "BaseException"
    THEN raises(cs, outcome)          \* not caught by "except Exception"
    ELSE IF kind = "stream"
    THEN LET c1 == new_generator(new_deferred_context(cs), TRUE)
         IN returns([c1 EXCEPT !.span = set_attribute(@, "streaming.enabled")])
    ELSE IF cs.trace_return_value /\ captureFails
    THEN raises(scope_exit(cs, "Exception"), "instrumentation")
    ELSE returns(scope_exit(
           IF cs.trace_return_value
           THEN [cs EXCEPT !.span = set_attribute(@, "return")]
           ELSE cs, "none"))

\* _trace_async_gen_wrapper: a plain function, one step.
async_gen_wrapper(cs, local_mode, createFails, attrFails) ==
    LET c0 == invoke([cs EXCEPT !.shape = "asyncgen"])
    IN IF ~is_initialized \/ createFails \in {"start", "enter"}
       THEN returns(new_generator(c0, FALSE))
       ELSE IF createFails = "name"
       THEN \* the handler reads _span_name, which is unbound; the
            \* generator made by the function is dropped
            raises(c0, "instrumentation")
       ELSE
         LET c1 == start_span(c0)
         IN IF attrFails
            THEN returns(new_generator(c1, FALSE))
            ELSE
              LET c2 == identity_attributes(
                          [c1 EXCEPT !.span =
                              set_attribute(@, "async_generator.enabled")],
                          local_mode)
              IN returns(new_generator(new_deferred_context(c2), TRUE))

\* A finally block that neither asks whether the span is still recording
\* nor whether the context was closed already.
generator_cleanup_unguarded(cs, exc_info, out) ==
    LET c1 == [cs EXCEPT !.span.attrs = @ \cup {"generator.completed"}]
        c2 == close_span_unguarded(c1, exc_info, out)
    IN [c2 EXCEPT !.gen.state = "done", !.ctx.st = "collected"]

\* The finally block of _trace_async_generator, then the generator frame is
\* released and with it the only strong reference to the deferred context.
generator_cleanup(cs, exc_info, out) ==
    LET c1 == [cs EXCEPT !.span = set_attribute(@, "generator.completed")]
        c2 == close_span(c1, exc_info, out)
    IN [c2 EXCEPT !.gen.state = "done", !.ctx.st = "collected"]

\* The generator object is finished: how the consumer saw it end.
finished(cs, how) ==
    [cs EXCEPT !.gen.state = "done", !.gen.ended = how]

\* A wrapper generator that swallows the first item of the stream.
generator_next_dropping(cs, inner, out) ==
    IF inner = "item"
    THEN [cs EXCEPT !.gen.state = "suspended",
                    !.gen.yielded = @ + 1,
                    !.gen.got = IF cs.gen.yielded = 0 THEN @
                                ELSE Append(@, cs.gen.yielded + 1)]
    ELSE finished(IF cs.gen.wrapped
                  THEN generator_cleanup(cs, "none", out) ELSE cs, inner)

\* A wrapper generator whose handler catches every exception class, so that
\* a cancellation is passed to close_span as an error too.
generator_next_any_error(cs, inner, out) ==
    IF inner = "item"
    THEN [cs EXCEPT !.gen.state = "suspended",
                    !.gen.yielded = @ + 1,
                    !.gen.got = Append(@, cs.gen.yielded + 1)]
    ELSE
      LET exc_info == IF inner \in Raised THEN inner ELSE "none"
      IN IF cs.gen.wrapped
         THEN finished(generator_cleanup(cs, exc_info, out), inner)
         ELSE finished(cs, inner)

\* One __anext__() on the generator the wrapper handed out.  inner is what
\* the wrapped generator does: it yields its next item ("item"), the item
\* numbered gen.yielded + 1, which "yield item" forwards to the consumer
\* (gen.got), or it ends ("exhausted", or raising "Exception" or
\* "BaseException") and the finally block runs.
generator_next(cs, inner, out) ==
    IF inner = "item"
    THEN [cs EXCEPT !.gen.state = "suspended",
                    !.gen.yielded = @ + 1,
                    !.gen.got = Append(@, cs.gen.yielded + 1)]
    ELSE
      LET how == inner
          exc_info == IF inner = "Exception" THEN "Exception" ELSE "none"
      IN IF cs.gen.wrapped
         THEN finished(generator_cleanup(cs, exc_info, out), how)
         ELSE finished(cs, how)

\* The generator is closed before it is exhausted, by aclose() (how =
\* "closed") or by the collector once the consumer drops it (how =
\* "dropped").  A generator that never ran has no finally block to run: its
\* frame is released, and the deferred context with it.
generator_close(cs, how, out) ==
    IF cs.gen.state = "created"
    THEN finished(IF cs.gen.wrapped THEN [cs EXCEPT !.ctx.st = "collected"]
                  ELSE cs, how)
    ELSE IF cs.gen.wrapped
    THEN finished(generator_cleanup(cs, "none", out), how)
    ELSE finished(cs, how)

\* The registry after the weakref callbacks of the collected contexts ran.
_cleanup_callback(registry, calls) ==
    {c \in registry : calls[c].ctx.st = "live"}

\* The body of the sweep's loop for one registered context of age age.
force_close(cs, age, out) ==
    LET sp == set_attribute(set_attribute(set_attribute(cs.span,
                 "force_closed"), "close_reason"), "age_seconds")
    IN close_span([cs EXCEPT !.span = sp], "none", out)

\* A sweep that also takes the contexts that are exactly max_age_seconds
\* old.
sweeps_inclusive(c, max_age_seconds) ==
    /\ ~call[c].ctx.closed
    /\ clock - call[c].ctx.created_at >= max_age_seconds

\* Whether _force_close_deferred_spans(max_age_seconds) force-closes the
\* registered context of call c.
sweeps(c, max_age_seconds) ==
    /\ ~call[c].ctx.closed
    /\ clock - call[c].ctx.created_at > max_age_seconds

\* _force_close_deferred_spans(max_age_seconds): the calls it leaves
swept_calls(max_age_seconds, outs) ==
    [c \in Calls |->
        IF c \in _deferred_spans /\ sweeps(c, max_age_seconds)
        THEN force_close(call[c], clock - call[c].ctx.created_at, outs[c])
        ELSE call[c]]

\* _force_close_deferred_spans(max_age_seconds): the registry it leaves
swept_registry(max_age_seconds) ==
    {c \in _deferred_spans : ~sweeps(c, max_age_seconds)}

\* ------------------------------------------------------ CredentialManager

\* expiration_utc of a response body: an ISO-8601 string naming an instant
\* (in minutes) with a "Z" suffix or without a zone, a string that is no
\* date, or absent.
Absent == [minutes |-> 0, fmt |-> "absent"]
Garbage == [minutes |-> 0, fmt |-> "garbage"]

\* _cached_credentials = None
None == [aws_access_key_id |-> 0, hash |-> 0, otlp_endpoint |-> 0,
         expiration_utc |-> Absent]

\* _credentials_expiry = None
NoExpiry == -1

\* Credential sets the verification endpoint can return.
Bodies == {[aws_access_key_id |-> k, hash |-> k, otlp_endpoint |-> k] :
              k \in 1..2}

\* The expirations the endpoint hands out: none, an unparsable one, one 15
\* minutes from now and one 2 hours from now.
Expirations ==
    {Absent, Garbage, [minutes |-> utc_now + 15, fmt |-> "Z"],
     [minutes |-> utc_now + 120, fmt |-> "naive"]}

\* What requests.get(verification_endpoint) can do: raise, answer non-2xx,
\* answer a body that is no JSON object or lacks a key, or answer a body.
Responses ==
    {[kind |-> k, body |-> None, expiration_utc |-> Absent] :
        k \in {"network_error", "not_ok", "malformed"}} \cup
    {[kind |-> "ok", body |-> b, expiration_utc |-> e] :
        b \in Bodies, e \in Expirations}

\* A response no refresh can succeed on: no answer, a non-2xx answer, a
\* malformed or incomplete body, an expiry that is no date.
Unusable(resp) == resp.kind # "ok" \/ resp.expiration_utc.fmt = "garbage"

\* requests.get is called and answers resp.
request(w, resp) ==
    [w EXCEPT !.fetches = Append(@, IF Unusable(resp) THEN "failed" ELSE "ok")]

\* datetime.fromisoformat(s.replace('Z', '+00:00')), made UTC when naive.
parse_expiration(e) == e.minutes

\* The logger-side state an operation works on, as one record.
World ==
    [cached |-> _cached_credentials, expiry |-> _credentials_expiry,
     name |-> config._name, otlp_endpoint |-> config.otlp_endpoint,
     handlers |-> handlers, attached |-> attached,
     cw |-> _cloudwatch_handler, fetches |-> << >>, events |-> << >>]

\* A needs_refresh that asks for a refresh on every call.
needs_refresh_always(w, force_refresh) == TRUE

\* A needs_refresh that lets the record live until the margin is passed.
needs_refresh_strict(w, force_refresh) ==
    \/ force_refresh
    \/ w.cached = None
    \/ w.expiry = NoExpiry
    \/ utc_now > w.expiry - RefreshMarginMinutes

\* CredentialManager.needs_refresh
needs_refresh(w, force_refresh) ==
    \/ force_refresh
    \/ w.cached = None
    \/ w.expiry = NoExpiry
    \/ utc_now >= w.expiry - RefreshMarginMinutes

\* A refresh that caches the record before the expiry is parsed.
fetch_partial(w, resp) ==
    LET w1 == request(w, resp)
    IN IF resp.kind # "ok" THEN w1
       ELSE [w1 EXCEPT
               !.cached = [aws_access_key_id |-> resp.body.aws_access_key_id,
                           hash |-> resp.body.hash,
                           otlp_endpoint |-> resp.body.otlp_endpoint,
                           expiration_utc |-> resp.expiration_utc],
               !.expiry = IF resp.expiration_utc.fmt \in {"absent", "garbage"}
                          THEN w.expiry
                          ELSE parse_expiration(resp.expiration_utc)]

\* A refresh that caches the new record and leaves the config as it was.
fetch_cache_only(w, resp) ==
    LET w1 == request(w, resp)
    IN IF resp.kind # "ok" \/ resp.expiration_utc.fmt = "garbage"
       THEN w1
       ELSE [w1 EXCEPT
               !.cached = [aws_access_key_id |-> resp.body.aws_access_key_id,
                           hash |-> resp.body.hash,
                           otlp_endpoint |-> resp.body.otlp_endpoint,
                           expiration_utc |-> resp.expiration_utc],
               !.expiry = IF resp.expiration_utc.fmt = "absent"
                          THEN utc_now + DefaultExpiryMinutes
                          ELSE parse_expiration(resp.expiration_utc)]

\* CredentialManager._fetch_and_cache_credentials
_fetch_and_cache_credentials(w, resp) ==
    LET w1 == request(w, resp)
    IN IF resp.kind # "ok" \/ resp.expiration_utc.fmt = "garbage"
       THEN w1
       ELSE [w1 EXCEPT
               !.cached = [aws_access_key_id |-> resp.body.aws_access_key_id,
                           hash |-> resp.body.hash,
                           otlp_endpoint |-> resp.body.otlp_endpoint,
                           expiration_utc |-> resp.expiration_utc],
               !.expiry = IF resp.expiration_utc.fmt = "absent"
                          THEN utc_now + DefaultExpiryMinutes
                          ELSE parse_expiration(resp.expiration_utc),
               !.name = resp.body.hash,
               !.otlp_endpoint = resp.body.otlp_endpoint]

\* Whether get_credentials stops at its local-mode / span-export gate.
gated == config.local_mode \/ ~config.enable_span_cloud_export

\* get_credentials that refreshes before looking at the configuration.
get_credentials_ungated(w, force_refresh, resp) ==
    IF needs_refresh(w, force_refresh)
    THEN _fetch_and_cache_credentials(w, resp)
    ELSE w

\* CredentialManager.get_credentials: the state it leaves
get_credentials(w, force_refresh, resp) ==
    IF gated THEN w
    ELSE IF needs_refresh(w, force_refresh)
    THEN _fetch_and_cache_credentials(w, resp)
    ELSE w

\* CredentialManager.get_credentials: the value it returns in state w
credentials_returned(w) == IF gated THEN None ELSE w.cached

\* CredentialManager.check_and_refresh_if_needed: the state it leaves
check_and_refresh_if_needed(w, resp) ==
    IF config.local_mode \/ ~needs_refresh(w, FALSE)
    THEN w
    ELSE get_credentials(w, FALSE, resp)

\* CredentialManager.check_and_refresh_if_needed: the truth value of what it
\* returns, from the state before (w) and after (w1)
credentials_changed(w, w1) ==
    /\ ~config.local_mode
    /\ needs_refresh(w, FALSE)
    /\ w1.cached # None /\ w.cached # None /\ w1.cached # w.cached

\* CredentialManager.force_refresh: the value it returns in state w1
force_refresh_result(w1) == w1.cached # None

\* ---------------------------------------------------------- TraceRootLogger

\* Names a TraceRootLogger can be constructed with: the service name (the
\* global logger) and one more.
Names == {"svc", "worker"}

Event(e, h) == [ev |-> e, h |-> h]

log_event(w, e, h) == [w EXCEPT !.events = Append(@, Event(e, h))]

\* A handler object right after its construction.
NewHandler(kind) == [kind |-> kind, closed |-> FALSE]

\* handler.flush() and handler.close(), whether they return or raise.
flush(w, h) == log_event(w, "flush", h)

close(w, h) == log_event([w EXCEPT !.handlers[h].closed = TRUE], "close", h)

\* logging.Logger.addHandler / removeHandler on the logger called name.
addHandler(w, name, h) ==
    log_event([w EXCEPT !.attached[name] = @ \cup {h}], "add", h)

removeHandler(w, name, h) ==
    log_event([w EXCEPT !.attached[name] = @ \ {h}], "remove", h)

\* TraceRootLogger._create_cloudwatch_handler: the state it leaves.  The
\* handler it returns is the last one of w.handlers when this grew, else None.
_create_cloudwatch_handler(w, credentials, resp, constructOk) ==
    LET w1 == IF credentials = None THEN get_credentials(w, FALSE, resp)
              ELSE w
    IN IF ~config.enable_log_cloud_export THEN w1
       ELSE IF ~constructOk THEN log_event(w1, "create_failed", 0)
       ELSE log_event([w1 EXCEPT !.handlers = Append(@, NewHandler("cloud"))],
                      "create", Len(w1.handlers) + 1)

\* The handler a construction step from w to w1 returned: 0 is None.
created(w, w1) ==
    IF Len(w1.handlers) > Len(w.handlers) THEN Len(w1.handlers) ELSE 0

\* TraceRootLogger._setup_cloudwatch_handler
_setup_cloudwatch_handler(w, name, resp1, resp2, constructOk) ==
    LET w1 == get_credentials(w, FALSE, resp1)
        w2 == _create_cloudwatch_handler(w1, credentials_returned(w1), resp2,
                                         constructOk)
        h == created(w1, w2)
    IN IF h # 0 THEN [addHandler(w2, name, h) EXCEPT !.cw = h] ELSE w2

\* TraceRootLogger._setup_otlp_logging_handler
_setup_otlp_logging_handler(w, name) ==
    LET w1 == [w EXCEPT !.handlers = Append(@, NewHandler("span_event"))]
    IN addHandler(w1, name, Len(w1.handlers))

\* A constructor that installs the local span-event sink on every path.
TraceRootLogger_both_sinks(w, name, resp1, resp2, constructOk) ==
    IF ~config.local_mode /\ config.enable_span_cloud_export
    THEN _setup_otlp_logging_handler(
            _setup_cloudwatch_handler(w, name, resp1, resp2, constructOk), name)
    ELSE _setup_otlp_logging_handler(w, name)

\* TraceRootLogger.__init__ for the logger called name
TraceRootLogger(w, name, resp1, resp2, constructOk) ==
    IF ~config.local_mode /\ config.enable_span_cloud_export
    THEN _setup_cloudwatch_handler(w, name, resp1, resp2, constructOk)
    ELSE _setup_otlp_logging_handler(w, name)

\* The teardown of the old handler in refresh_credentials: flush, close and
\* removeHandler under one try, so the first of them that raises ends it.
remove_existing(w, name, fails) ==
    IF w.cw = 0 THEN w
    ELSE LET w1 == flush(w, w.cw)
         IN IF fails = "flush" THEN w1
            ELSE LET w2 == close(w1, w.cw)
                 IN IF fails = "close" THEN w2
                    ELSE removeHandler(w2, name, w.cw)

\* TraceRootLogger.refresh_credentials: the state it leaves
refresh_credentials(w, name, resp, constructOk, fails) ==
    IF gated THEN w
    ELSE
      LET w1 == get_credentials(w, TRUE, resp)
      IN IF w1.cached = None \/ ~config.enable_log_cloud_export
         THEN w1
         ELSE
           LET w2 == _create_cloudwatch_handler(w1, w1.cached, resp,
                                                constructOk)
               h == created(w1, w2)
               w3 == remove_existing(w2, name, fails)
           IN IF h # 0 THEN [addHandler(w3, name, h) EXCEPT !.cw = h]
              ELSE w3

\* TraceRootLogger.refresh_credentials: the value it returns, from the state
\* after its forced get_credentials
refresh_result(w1) == ~gated /\ w1.cached # None

\* A credential check of the log path that rotates on every reported
\* change, whether or not cloud log export is enabled.
check_and_rotate_always(w, name, resp1, resp2, constructOk, fails) ==
    IF gated THEN w
    ELSE
      LET w1 == check_and_refresh_if_needed(w, resp1)
      IN IF credentials_changed(w, w1)
         THEN refresh_credentials(w1, name, resp2, constructOk, fails)
         ELSE w1

\* TraceRootLogger._check_and_refresh_credentials, the first thing every log
\* call (debug, info, warning, error, critical) does
_check_and_refresh_credentials(w, name, resp1, resp2, constructOk, fails) ==
    IF gated THEN w
    ELSE
      LET w1 == check_and_refresh_if_needed(w, resp1)
      IN IF credentials_changed(w, w1) /\ config.enable_log_cloud_export
         THEN refresh_credentials(w1, name, resp2, constructOk, fails)
         ELSE w1

\* The loop of shutdown_logger over the global logger's handlers, lowest
\* handler first: flush, close and removeHandler under one try per handler.
RECURSIVE close_all(_, _, _, _)
close_all(w, name, todo, fails) ==
    IF todo = {} THEN w
    ELSE
      LET h == CHOOSE x \in todo : \A y \in todo : x <= y
          w1 == flush(w, h)
          w2 == IF fails[h] = "flush" THEN w1
                ELSE LET w3 == close(w1, h)
                     IN IF fails[h] = "close" THEN w3
                        ELSE removeHandler(w3, name, h)
      IN close_all(w2, name, todo \ {h}, fails)

\* shutdown_logger: the state it leaves.  cwFails names the call on the
\* global cloud handler that raises, fails the call that raises per handler
\* of the loop.
shutdown_logger(w, cwFails, fails) ==
    LET w1 == IF w.cw = 0 THEN w
              ELSE
                LET a == flush(w, w.cw)
                    b == IF cwFails = "flush1" THEN a
                         ELSE LET c == flush(a, w.cw)
                              IN IF cwFails = "flush2" THEN c
                                 ELSE close(c, w.cw)
                IN [b EXCEPT !.cw = 0]
    IN IF _global_logger = "None" THEN w1
       ELSE close_all(w1, _global_logger, w1.attached[_global_logger], fails)

\* Which call, if any, raises while a handler is torn down.
TeardownFailures == {"none", "flush", "close"}

\* ------------------------------------------------------------- the state

\* ------------------------------------------------------------ TraceIdFilter

\* Identifiers of traces and spans: 0 is the invalid one.
Ids == {0, 1, MaxId}

\* What span.parent can be: absent (None, a root span), an object without
\* a span_id attribute, or a span context with a span id.
Parents ==
    {[kind |-> k, span_id |-> 0] : k \in {"absent", "no_span_id"}} \cup
    {[kind |-> "ctx", span_id |-> i] : i \in Ids}

\* What get_current_span() can hand to the filter: a span whose
\* get_span_context() is None or a context with a trace id and a span id,
\* its parent, and its name ("absent" when it has no name attribute).
AmbientSpans ==
    [has_ctx : BOOLEAN, trace_id : Ids, span_id : Ids, parent : Parents,
     name : {"absent", "operation"}]

\* A field of a log record: a literal text, or characters given as hex
\* digits 0..15, with -1 for "-".
Text(t) == [text |-> t, chars |-> << >>]

\* format(n, "0<width>x"): n in hexadecimal, zero-padded to width digits.
RECURSIVE format(_, _)
format(n, width) ==
    IF width = 0 THEN << >>
    ELSE Append(format(n \div 16, width - 1), n % 16)

\* f"1-{trace_id_hex[:8]}-{trace_id_hex[8:]}"
xray(trace_id) ==
    LET trace_id_hex == format(trace_id, 32)
    IN [text |-> "", chars |-> <<1, -1>> \o SubSeq(trace_id_hex, 1, 8)
                                \o <<-1>> \o SubSeq(trace_id_hex, 9, 32)]

\* A filter that takes every parent context for a parent, span id 0 too.
filter_any_parent(span) ==
    IF span.has_ctx /\ span.trace_id # 0
    THEN [accepted |-> TRUE,
          trace_id |-> xray(span.trace_id),
          span_id |-> IF span.span_id # 0
                      THEN [text |-> "", chars |-> format(span.span_id, 16)]
                      ELSE Text("no-span"),
          parent_span_id |->
             IF span.parent.kind = "ctx"
             THEN [text |-> "", chars |-> format(span.parent.span_id, 16)]
             ELSE Text("no-parent"),
          span_name |-> IF span.name = "absent" THEN Text("unknown")
                        ELSE Text(span.name)]
    ELSE [accepted |-> TRUE, trace_id |-> Text("no-trace"),
          span_id |-> Text("no-span"), parent_span_id |-> Text("no-parent"),
          span_name |-> Text("unknown")]

\* TraceIdFilter.filter(record) with get_current_span() = span: whether
\* the record is accepted, and the correlation fields it gets.
filter(span) ==
    IF span.has_ctx /\ span.trace_id # 0
    THEN [accepted |-> TRUE,
          trace_id |-> xray(span.trace_id),
          span_id |-> IF span.span_id # 0
                      THEN [text |-> "", chars |-> format(span.span_id, 16)]
                      ELSE Text("no-span"),
          parent_span_id |->
             IF span.parent.kind = "ctx" /\ span.parent.span_id # 0
             THEN [text |-> "", chars |-> format(span.parent.span_id, 16)]
             ELSE Text("no-parent"),
          span_name |-> IF span.name = "absent" THEN Text("unknown")
                        ELSE Text(span.name)]
    ELSE [accepted |-> TRUE, trace_id |-> Text("no-trace"),
          span_id |-> Text("no-span"), parent_span_id |-> Text("no-parent"),
          span_name |-> Text("unknown")]

\* No span and the record of no log call.
NoAmbient ==
    [has_ctx |-> FALSE, trace_id |-> 0, span_id |-> 0,
     parent |-> [kind |-> "absent", span_id |-> 0], name |-> "absent"]

\* ------------------------------------------------ returned stream objects

\* What an attribute of a returned object can hold: nothing (no such
\* attribute), a plain value, a synchronous iterator, an async generator,
\* or, after the wrapper stored it, the traced generator.
FieldValues == {"absent", "value", "iterator", "asyncgen"}

\* What a traced coroutine can return: an async generator itself (it has
\* none of the attributes), or an object with or without body_iterator,
\* content and a further attribute (status_code).
Returned ==
    {[kind |-> "asyncgen", body_iterator |-> "absent", content |-> "absent",
      status_code |-> "absent"]} \cup
    [kind : {"object"}, body_iterator : FieldValues, content : FieldValues,
     status_code : {"absent", "value"}]

\* No object returned.
NoObject == [kind |-> "None", body_iterator |-> "absent", content |-> "absent", status_code |-> "absent"]

hasattr(obj, field) == obj[field] # "absent"

\* _extract_async_generator(obj): where the async generator it returns was
\* found, "None" when it returns None.
_extract_async_generator(obj) ==
    IF obj.kind = "asyncgen" THEN "self"
    ELSE IF hasattr(obj, "body_iterator") /\ obj.body_iterator = "asyncgen"
    THEN "body_iterator"
    ELSE IF hasattr(obj, "content") /\ obj.content = "asyncgen"
    THEN "content"
    ELSE "None"

\* _trace_async_wrapper, the value it returns for the awaited value ret:
\* ret itself when it holds no async generator, else ret with the traced
\* generator stored in it, or the traced generator in its place.
store_traced_generator(ret) ==
    LET async_gen == _extract_async_generator(ret)
    IN IF async_gen = "None" THEN ret
       ELSE IF hasattr(ret, "body_iterator")
       THEN [ret EXCEPT !.body_iterator = "traced"]
       ELSE IF hasattr(ret, "content")
       THEN [ret EXCEPT !.content = "traced"]
       ELSE [ret EXCEPT !.kind = "traced"]

\* Keyword parameters of traceroot.init(**kwargs): the model varies one of
\* the TraceRootConfig fields.
Kwargs == [enable_log_cloud_export : BOOLEAN]

NoOp == [name |-> "none", logger |-> "None", force |-> FALSE,
         result |-> FALSE, returned |-> None, raised |-> FALSE,
         fetches |-> << >>, events |-> << >>,
         kwargs |-> [enable_log_cloud_export |-> FALSE], provider |-> 0,
         span |-> NoAmbient, record |-> filter(NoAmbient),
         max_age_seconds |-> 0, closed_count |-> 0,
         ret |-> NoObject, stored |-> NoObject]

\* The operation record of an operation that left world w.
Op(name, logger, w) ==
    [NoOp EXCEPT !.name = name, !.logger = logger, !.fetches = w.fetches,
                 !.events = w.events]

Configs ==
    [local_mode : BOOLEAN, enable_span_cloud_export : BOOLEAN,
     enable_log_cloud_export : BOOLEAN, _name : {0}, otlp_endpoint : {0}]

\* The process after import: tracing and logging not initialized, nothing
\* cached, no handler, an empty registry.
Init ==
    /\ tracer_provider = 0
    /\ providers = 0
    /\ clock = 0
    /\ call = [c \in Calls |-> IdleCall]
    /\ _deferred_spans = {}
    /\ config \in Configs
    /\ _cached_credentials = None
    /\ _credentials_expiry = NoExpiry
    /\ utc_now = 0
    /\ handlers = << >>
    /\ attached = [n \in Names |-> {}]
    /\ _cloudwatch_handler = 0
    /\ _global_logger = "None"
    /\ loggers = {}
    /\ op = NoOp

\* The world w and the operation record o become the next state.
Commit(w, o) ==
    /\ Len(w.handlers) <= MaxHandlers
    /\ _cached_credentials' = w.cached
    /\ _credentials_expiry' = w.expiry
    /\ config' = [config EXCEPT !._name = w.name,
                                !.otlp_endpoint = w.otlp_endpoint]
    /\ handlers' = w.handlers
    /\ attached' = w.attached
    /\ _cloudwatch_handler' = w.cw
    /\ op' = o

\* An input that is drawn only when the step reads it.
When(used, S) == IF used THEN S ELSE {CHOOSE x \in S : TRUE}

\* -------------------------------------------- logger and credential steps

\* initialize_logger(config): a new CredentialManager and the global logger.
\* Loggers of an earlier initialisation would keep the earlier manager; the
\* model follows one manager, so this is the first construction.
InitializeLogger ==
    /\ loggers = {}
    /\ LET w0 == [World EXCEPT !.cached = None, !.expiry = NoExpiry]
       IN \E r1 \in When(~gated, Responses) :
            LET w1 == get_credentials(w0, FALSE, r1)
            IN \E r2 \in When(~gated /\ w1.cached = None, Responses),
                  ok \in When(~gated /\ config.enable_log_cloud_export,
                              BOOLEAN) :
                 LET w == TraceRootLogger(w0, "svc", r1, r2, ok)
                 IN Commit(w, Op("initialize_logger", "svc", w))
    /\ _global_logger' = "svc"
    /\ loggers' = {"svc"}
    /\ UNCHANGED <<tracerVars, utc_now>>

\* A get_logger(name) that does not look at the global logger first: it
\* hands out whatever the global reference holds.
GetLogger_unchecked(names) ==
    /\ \E name \in names \cup {"None"} :
         /\ Commit(World, Op("get_logger", _global_logger, World))
         /\ UNCHANGED loggers
    /\ UNCHANGED <<tracerVars, utc_now, _global_logger>>

\* get_logger(name): raises before initialisation and after shutdown,
\* returns the global logger for name None, constructs a logger otherwise.
GetLogger(names) ==
    /\ \E name \in names \cup {"None"} :
         IF _global_logger = "None"
         THEN /\ Commit(World, [Op("get_logger", name, World)
                                   EXCEPT !.raised = TRUE])
              /\ UNCHANGED loggers
         ELSE IF name = "None"
         THEN /\ Commit(World, Op("get_logger", _global_logger, World))
              /\ UNCHANGED loggers
         ELSE \E r1 \in When(~gated /\ needs_refresh(World, FALSE),
                              Responses) :
                LET w1 == get_credentials(World, FALSE, r1)
                IN \E r2 \in When(~gated /\ w1.cached = None, Responses),
                      ok \in When(~gated /\ config.enable_log_cloud_export,
                                  BOOLEAN) :
                     LET w == TraceRootLogger(World, name, r1, r2, ok)
                     IN /\ Commit(w, Op("get_logger", name, w))
                        /\ loggers' = loggers \cup {name}
    /\ UNCHANGED <<tracerVars, utc_now, _global_logger>>

\* logger.debug/info/warning/error/critical on the logger called l.  The
\* operation record keeps what check_and_refresh_if_needed reported to it.
LogCall ==
    /\ \E l \in loggers,
          r1 \in When(~gated /\ needs_refresh(World, FALSE), Responses) :
         LET w1 == check_and_refresh_if_needed(World, r1)
             rotates == /\ ~gated
                        /\ credentials_changed(World, w1)
                        /\ config.enable_log_cloud_export
         IN \E r2 \in When(rotates, Responses),
               ok \in When(rotates, BOOLEAN),
               fails \in When(rotates /\ _cloudwatch_handler # 0,
                              TeardownFailures) :
              LET w == _check_and_refresh_credentials(World, l, r1, r2, ok,
                                                      fails)
              IN Commit(w, [Op("log", l, w)
                              EXCEPT !.result = ~gated /\
                                                credentials_changed(World, w1)])
    /\ UNCHANGED <<tracerVars, utc_now, _global_logger, loggers>>

\* TraceRootLogger.refresh_credentials() on the logger called l
RefreshCredentials ==
    /\ \E l \in loggers, r \in When(~gated, Responses),
          ok \in When(~gated /\ config.enable_log_cloud_export, BOOLEAN),
          fails \in When(/\ ~gated /\ config.enable_log_cloud_export
                         /\ _cloudwatch_handler # 0, TeardownFailures) :
         LET w == refresh_credentials(World, l, r, ok, fails)
         IN Commit(w, [Op("refresh_credentials", l, w)
                         EXCEPT !.result = refresh_result(w)])
    /\ UNCHANGED <<tracerVars, utc_now, _global_logger, loggers>>

\* credential_manager.get_credentials(force_refresh)
GetCredentials ==
    /\ \E force \in BOOLEAN, r \in Responses :
         LET w == get_credentials(World, force, r)
         IN Commit(w, [Op("get_credentials", "None", w)
                         EXCEPT !.force = force,
                                !.returned = credentials_returned(w)])
    /\ UNCHANGED <<tracerVars, utc_now, _global_logger, loggers>>

\* credential_manager.check_and_refresh_if_needed()
CheckAndRefreshIfNeeded ==
    /\ \E r \in Responses :
         LET w == check_and_refresh_if_needed(World, r)
         IN Commit(w, [Op("check_and_refresh_if_needed", "None", w)
                         EXCEPT !.result = credentials_changed(World, w)])
    /\ UNCHANGED <<tracerVars, utc_now, _global_logger, loggers>>

\* credential_manager.force_refresh()
ForceRefresh ==
    /\ \E r \in Responses :
         LET w == get_credentials(World, TRUE, r)
         IN Commit(w, [Op("force_refresh", "None", w)
                         EXCEPT !.force = TRUE,
                                !.result = force_refresh_result(w)])
    /\ UNCHANGED <<tracerVars, utc_now, _global_logger, loggers>>

\* shutdown_logger()
ShutdownLogger ==
    /\ \E cwFails \in When(_cloudwatch_handler # 0,
                            {"none", "flush1", "flush2", "close"}),
          fails \in [(IF _global_logger = "None" THEN {}
                      ELSE attached[_global_logger]) -> TeardownFailures] :
         LET w == shutdown_logger(World, cwFails, fails)
         IN Commit(w, Op("shutdown_logger", "None", w))
    /\ _global_logger' = "None"
    /\ UNCHANGED <<tracerVars, utc_now, loggers>>

\* Time passes on the credential clock.
TickUtc ==
    /\ utc_now < MaxUtcTicks * TickMinutes
    /\ utc_now' = utc_now + TickMinutes
    /\ UNCHANGED <<tracerVars, config, credVars, loggerVars>>

NextCredentials ==
    \/ GetCredentials
    \/ CheckAndRefreshIfNeeded
    \/ ForceRefresh
    \/ TickUtc

\* A CredentialManager(config) driven through its own methods.
SpecCredentials == Init /\ [][NextCredentials]_vars

\* get_logger() and get_logger(service_name)
GetServiceLogger == GetLogger({"svc"})

NextLogger ==
    \/ InitializeLogger
    \/ GetServiceLogger
    \/ LogCall
    \/ RefreshCredentials
    \/ ShutdownLogger
    \/ TickUtc

\* The service's loggers, the cloud handler and the credential manager they
\* drive.
SpecLogger == Init /\ [][NextLogger]_vars

\* ------------------------------------------------------------ tracer steps

Outcomes == {"return"} \cup Raised

\* What the wrapped generator does when asked for its next item.
Inner == {"item", "exhausted"} \cup Raised

\* Calls are made in the order of their numbers.
Fresh(c) == call[c].pc = "idle" /\ \A d \in Calls : d < c => call[d].pc # "idle"

\* The calls and the registry become the next state.
Traced(calls) ==
    /\ call' = calls
    /\ _deferred_spans' =
          _cleanup_callback(
             _deferred_spans \cup
                {c \in Calls : call[c].ctx.st = "none" /\ calls[c].ctx.st = "live"},
             calls)
    /\ UNCHANGED <<tracer_provider, providers, clock, config, credVars,
                   utc_now, loggerVars>>

\* traceroot.init(**kwargs) with parameters: _initialize_tracing.  The
\* operation record keeps the parameters and the provider handed back.  A
\* call that initializes is made with the parameters the process starts
\* from (config); a call made while initialized returns the provider there
\* is and reads none of its parameters.
InitializeTracing ==
    /\ providers < MaxInits
    /\ IF tracer_provider # 0
       THEN /\ \E kwargs \in Kwargs :
                 op' = [NoOp EXCEPT !.name = "init", !.kwargs = kwargs,
                                    !.provider = tracer_provider]
            /\ UNCHANGED <<tracerVars, config, credVars, utc_now, handlers,
                           attached, _cloudwatch_handler, _global_logger,
                           loggers>>
       ELSE
         /\ LET w0 == [World EXCEPT !.cached = None, !.expiry = NoExpiry]
            IN \E r1 \in When(~gated, Responses) :
                 LET w1 == get_credentials(w0, FALSE, r1)
                 IN \E r2 \in When(~gated /\ w1.cached = None, Responses),
                       ok \in When(~gated /\ config.enable_log_cloud_export,
                                   BOOLEAN) :
                      LET w == TraceRootLogger(w0, "svc", r1, r2, ok)
                      IN Commit(w, [Op("init", "svc", w)
                           EXCEPT !.kwargs = [enable_log_cloud_export |->
                                      config.enable_log_cloud_export],
                                  !.provider = providers + 1])
         /\ _global_logger' = "svc"
         /\ loggers' = loggers \cup {"svc"}
         /\ tracer_provider' = providers + 1
         /\ providers' = providers + 1
         /\ UNCHANGED <<clock, call, _deferred_spans, utc_now>>

\* A call of a function decorated with @trace that is a plain function.
SyncCall ==
    \E c \in Calls, outcome \in Outcomes,
       createFails \in When(is_initialized, CreateFaults) :
      \E attrFails \in When(is_initialized /\ createFails = "none", BOOLEAN) :
        \E trace_return_value \in
               When(is_initialized /\ createFails = "none" /\ ~attrFails
                      /\ outcome = "return", BOOLEAN) :
          \E captureFails \in When(trace_return_value, BOOLEAN) :
            /\ Fresh(c)
            /\ Traced([call EXCEPT ![c] =
                  sync_wrapper(@, config.local_mode, trace_return_value,
                               createFails, attrFails, captureFails, outcome)])

\* A call of a decorated coroutine function, up to its await.
AsyncCall ==
    \E c \in Calls, createFails \in When(is_initialized, CreateFaults) :
      \E attrFails \in When(is_initialized /\ createFails = "none", BOOLEAN) :
        \E trace_return_value \in
               When(is_initialized /\ createFails = "none" /\ ~attrFails, BOOLEAN) :
          /\ Fresh(c)
          /\ Traced([call EXCEPT ![c] =
                async_wrapper_start(@, config.local_mode, trace_return_value,
                                    createFails, attrFails)])

\* The awaited coroutine completes and the wrapper runs to its end.
AsyncReturn ==
    \E c \in Calls, outcome \in Outcomes :
      \E kind \in When(outcome = "return", {"stream", "value"}) :
        \E captureFails \in
               When(outcome = "return" /\ kind = "value"
                      /\ call[c].trace_return_value, BOOLEAN) :
          /\ call[c].pc = "awaiting"
          /\ Traced([call EXCEPT ![c] =
                async_wrapper_finish(@, outcome, kind, captureFails)])

\* A call of a decorated async generator function.
AsyncGenCall ==
    \E c \in Calls, createFails \in When(is_initialized, CreateFaults) :
      \E attrFails \in When(is_initialized /\ createFails = "none", BOOLEAN) :
        /\ Fresh(c)
        /\ Traced([call EXCEPT ![c] =
              async_gen_wrapper(@, config.local_mode, createFails, attrFails)])

\* Whether the finally block of call c's generator would reach an open
\* deferred context.
closes(c) == call[c].gen.wrapped /\ ~call[c].ctx.closed

\* The consumer asks the generator it was handed for its next item.
GeneratorNext ==
    \E c \in Calls, inner \in Inner :
      \E out \in When(inner # "item" /\ closes(c), ExitOutcomes) :
        /\ call[c].gen.state \in {"created", "suspended"}
        /\ inner = "item" => call[c].gen.yielded < MaxItems
        /\ Traced([call EXCEPT ![c] = generator_next(@, inner, out)])

\* The consumer closes the generator early (aclose) or drops it, and the
\* collector finalizes it.
GeneratorClose ==
    \E c \in Calls, how \in {"closed", "dropped"} :
      \E out \in When(call[c].gen.state = "suspended" /\ closes(c),
                       ExitOutcomes) :
        /\ call[c].gen.state \in {"created", "suspended"}
        /\ Traced([call EXCEPT ![c] = generator_close(@, how, out)])

\* The registered contexts a sweep with max_age_seconds force-closes.
swept(max_age_seconds) ==
    {c \in _deferred_spans : sweeps(c, max_age_seconds)}

\* _force_close_deferred_spans(max_age_seconds), the timeout sweep.  The
\* operation record keeps its argument and the count it returns.
Sweep ==
    \E max_age_seconds \in 0..MaxAge :
     \E outs \in [swept(max_age_seconds) -> ExitOutcomes] :
      /\ call' = swept_calls(max_age_seconds, outs)
      /\ _deferred_spans' = swept_registry(max_age_seconds)
      /\ op' = [NoOp EXCEPT !.name = "sweep",
                            !.max_age_seconds = max_age_seconds,
                            !.closed_count =
                                Cardinality(swept(max_age_seconds))]
      /\ UNCHANGED <<tracer_provider, providers, clock, config, credVars,
                     utc_now, handlers, attached, _cloudwatch_handler,
                     _global_logger, loggers>>

\* shutdown_tracing(): the sweep with max_age_seconds = 0, then the flush
\* and shutdown of the provider.
ShutdownTracing ==
    IF tracer_provider = 0
    THEN UNCHANGED vars
    ELSE \E outs \in [swept(0) -> ExitOutcomes] :
           /\ call' = swept_calls(0, outs)
           /\ _deferred_spans' = swept_registry(0)
           /\ tracer_provider' = 0
           /\ UNCHANGED <<providers, clock, config, credVars, utc_now,
                          loggerVars>>

\* traceroot.shutdown(): shutdown_logger(), then shutdown_tracing()
Shutdown ==
    /\ \E cwFails \in When(_cloudwatch_handler # 0,
                            {"none", "flush1", "flush2", "close"}),
          fails \in [(IF _global_logger = "None" THEN {}
                      ELSE attached[_global_logger]) -> TeardownFailures] :
         LET w == shutdown_logger(World, cwFails, fails)
         IN Commit(w, Op("shutdown_logger", "None", w))
    /\ _global_logger' = "None"
    /\ IF tracer_provider = 0
       THEN UNCHANGED <<tracer_provider, call, _deferred_spans>>
       ELSE \E outs \in [swept(0) -> ExitOutcomes] :
              /\ call' = swept_calls(0, outs)
              /\ _deferred_spans' = swept_registry(0)
              /\ tracer_provider' = 0
    /\ UNCHANGED <<providers, clock, utc_now, loggers>>

\* Time passes on the tracer's clock.
Tick ==
    /\ clock < MaxClock
    /\ clock' = clock + 1
    /\ UNCHANGED <<tracer_provider, providers, call, _deferred_spans, config,
                   credVars, utc_now, loggerVars>>

\* The logger's operations when log calls keep being made.
SpecLoggerFair == SpecLogger /\ WF_vars(LogCall)

\* A handler passes a record to the TraceIdFilter while span is the
\* current span.
Filter ==
    /\ \E span \in AmbientSpans :
         op' = [NoOp EXCEPT !.name = "filter", !.span = span,
                            !.record = filter(span)]
    /\ UNCHANGED <<tracerVars, config, credVars, utc_now, handlers, attached,
                   _cloudwatch_handler, _global_logger, loggers>>

\* The correlation filter applied to every kind of current span.
SpecFilter == Init /\ [][Filter]_vars

NextTracer ==
    \/ InitializeTracing
    \/ SyncCall
    \/ AsyncCall
    \/ AsyncReturn
    \/ AsyncGenCall
    \/ GeneratorNext
    \/ GeneratorClose
    \/ Sweep
    \/ ShutdownTracing
    \/ Tick

\* The process after import in a configuration where obtaining credentials
\* is skipped (local mode, or cloud span export disabled).
InitGated == Init /\ gated

\* The tracer, in the configurations where obtaining credentials is skipped.
SpecTracer == InitGated /\ [][NextTracer]_vars

\* The tracer when the timeout sweep, shutdown and the clock keep running.
SpecTracerFair ==
    SpecTracer /\ WF_vars(Sweep) /\ WF_vars(ShutdownTracing) /\ WF_vars(Tick)

\* The logger's and the credential manager's operations in a configuration
\* where credentials are gated off (local mode, or cloud span export
\* disabled).
NextGated == NextLogger \/ NextCredentials

SpecGated == InitGated /\ [][NextGated]_vars

\* ------------------------------------------------- span lifecycle (C1-C4)

\* The span-lifecycle events of a call, in order.
lifecycle(c) ==
    SelectSeq(call[c].events,
              LAMBDA e : e \in {"open", "close", "return", "raise"})

has_context(c) == call[c].ctx.st # "none"

C1_state(c) ==
    has_context(c) =>
       /\ call[c].exits <= 1
       /\ call[c].ctx.closed <=> call[c].exits = 1
       /\ ~call[c].ctx.closed => is_recording(call[c].span)

C1_step(c) ==
    /\ (call[c].pc = "awaiting" /\ has_context(c)')
          => /\ call'[c].pc = "returned"
             /\ is_recording(call'[c].span)
             /\ ~call'[c].ctx.closed
             /\ lifecycle(c)' = <<"open", "return">>
    /\ call[c].ctx.closed
          => /\ call'[c].ctx.closed
             /\ call'[c].exits = call[c].exits
             /\ call'[c].span.state = call[c].span.state
             /\ call'[c].span.status = call[c].span.status
             /\ call'[c].span.exc = call[c].span.exc

\* C1: for every streaming traced call the span is still open when the
\* wrapper returns; whatever follows (exhaustion, early close, exception,
\* timeout sweep, shutdown sweep), the scope of the deferred context is
\* exited at most once, exactly once when the context is closed; a close
\* attempt on a closed context changes nothing, and the closed flag never
\* goes back to open.
C1_ClosedExactlyOnce ==
    /\ [](\A c \in Calls : C1_state(c))
    /\ [][\A c \in Calls : C1_step(c)]_vars

\* A streaming coroutine call whose context the sweep force-closed before
\* the generator finished, and whose generator then ran its cleanup: the
\* second close attempt.
C1_Witness ==
    \E c \in Calls :
       /\ call[c].shape = "async"
       /\ call[c].ctx.closed
       /\ "force_closed" \in call[c].span.attrs
       /\ call[c].gen.state = "done"
       /\ call[c].gen.ended = "exhausted"
       /\ call[c].exits = 1

\* C2: a finished sync call, or async call whose result is not a stream,
\* for which the wrapper opened a span has exactly one open and one close,
\* the open before the close and the close before the return or raise.
C2_OneSpanOpenedAndClosed ==
    \A c \in Calls :
       (/\ call[c].pc \in {"returned", "raised"}
        /\ call[c].shape \in {"sync", "async"}
        /\ call[c].gen.state = "none"
        /\ call[c].span.state # "none")
       => lifecycle(c) \in {<<"open", "close", "return">>,
                            <<"open", "close", "raise">>}

\* C3: every deferred span context that is created is eventually closed.
C3_EventuallyClosed ==
    \A c \in Calls : has_context(c) ~> call[c].ctx.closed

\* C4: a shutdown that runs while tracing is initialized leaves every
\* deferred span context that was registered and open closed.
C4_ShutdownClosesAll ==
    [][(is_initialized /\ ~is_initialized')
         => \A c \in _deferred_spans : call'[c].ctx.closed]_vars

\* --------------------------------------------- handler rotation (C5, C6)

\* The step is an operation that ran the rotation code of
\* refresh_credentials while a global cloud handler existed.
rotation_step ==
    /\ op' # op
    /\ op'.name \in {"refresh_credentials", "log"}
    /\ _cloudwatch_handler # 0

\* The events of kind e in the operation record o.
events_of(o, e) == SelectSeq(o.events, LAMBDA x : x.ev = e)

\* C5: when the construction of the replacement handler fails during a
\* rotation, the old handler gets no flush() and no close(), stays attached
\* and stays the global handler.
C5_FailedConstructionLeavesOld ==
    [][(rotation_step /\ events_of(op', "create_failed") # << >>)
         => LET old == _cloudwatch_handler
            IN /\ \A i \in 1..Len(op'.events) : op'.events[i].h # old
               /\ handlers'[old].closed = handlers[old].closed
               /\ \A n \in Names : old \in attached[n] => old \in attached'[n]
               /\ _cloudwatch_handler' = old]_vars

\* C6: a rotation that constructed its replacement consists of exactly
\* these events in this order: construction of the new handler, flush() of
\* the old one, close() of the old one, its removal from the logger, the
\* attachment of the new one; the global reference then is the new handler.
C6_RotationOrder ==
    [][(rotation_step /\ events_of(op', "create") # << >>)
         => LET old == _cloudwatch_handler
                new == Len(handlers')
            IN /\ op'.events = <<Event("create", new), Event("flush", old),
                                  Event("close", old), Event("remove", old),
                                  Event("add", new)>>
               /\ _cloudwatch_handler' = new]_vars

\* ------------------------------------------------- credentials (C7 - C10)

\* The step is a call of a CredentialManager method.
manager_step ==
    /\ op' # op
    /\ op'.name \in {"get_credentials", "force_refresh",
                     "check_and_refresh_if_needed"}

\* C7: a refresh that fails (network error, non-2xx answer, malformed or
\* incomplete body, unparsable expiry) leaves the cached record, the cached
\* expiry and the config's hash and endpoint as they were, raises nothing,
\* and get_credentials(force_refresh=True) returns the record cached before.
C7_FailedRefreshChangesNothing ==
    [][(manager_step /\ op'.fetches = <<"failed">>)
         => /\ _cached_credentials' = _cached_credentials
            /\ _credentials_expiry' = _credentials_expiry
            /\ config' = config
            /\ ~op'.raised
            /\ (op'.name = "get_credentials" /\ op'.force)
                  => op'.returned = _cached_credentials]_vars

\* A forced get_credentials whose request failed while a record was cached.
C7_Witness ==
    /\ op.name = "get_credentials"
    /\ op.force
    /\ op.fetches = <<"failed">>
    /\ _cached_credentials # None
    /\ op.returned = _cached_credentials

\* C8: in local mode or with cloud span export disabled, get_credentials
\* (forced or not), refresh_credentials and every log call make no request
\* to the verification endpoint, get_credentials returns None, and the
\* credential cache stays as it was.
C8_GatedMakesNoRequest ==
    /\ [](gated => /\ op.fetches = << >>
                    /\ op.name = "get_credentials" => op.returned = None)
    /\ [][gated => /\ _cached_credentials' = _cached_credentials
                    /\ _credentials_expiry' = _credentials_expiry]_vars

\* A forced get_credentials in a gated configuration, after the logger was
\* initialized.
C8_Witness ==
    /\ gated
    /\ loggers # {}
    /\ op.name = "get_credentials"
    /\ op.force
    /\ op.returned = None

\* C9: check_and_refresh_if_needed requests credentials only when
\* needs_refresh() is true, and its result is true exactly when the record
\* cached after the call differs from the record cached before it.
C9_ResultIffChanged ==
    [][(op' # op /\ op'.name = "check_and_refresh_if_needed")
         => /\ op'.fetches # << >> => needs_refresh(World, FALSE)
            /\ op'.result <=> _cached_credentials' # _cached_credentials]_vars

\* Cloud export of spans and logs is on, a cloud handler is installed and
\* the clock is within the refresh margin of the cached expiry.
near_expiry ==
    /\ ~config.local_mode
    /\ config.enable_span_cloud_export
    /\ config.enable_log_cloud_export
    /\ _cloudwatch_handler # 0
    /\ _cached_credentials # None
    /\ _credentials_expiry # NoExpiry
    /\ utc_now >= _credentials_expiry - RefreshMarginMinutes
    /\ utc_now <= _credentials_expiry

\* C10: a log call made within 30 minutes of the cached expiry makes at
\* least one request; when the record the endpoint returned differs from
\* the cached one, that log call constructs exactly one handler and the old
\* handler is flushed, closed and detached.
C10_LogCallRotatesOnce ==
    [][(near_expiry /\ op' # op /\ op'.name = "log")
         => /\ Len(op'.fetches) >= 1
            /\ (op'.fetches[1] = "ok"
                   /\ _cached_credentials' # _cached_credentials)
                 => LET old == _cloudwatch_handler
                    IN /\ Len(events_of(op', "create")) = 1
                       /\ Len(handlers') = Len(handlers) + 1
                       /\ Event("flush", old) \in
                             {op'.events[i] : i \in 1..Len(op'.events)}
                       /\ handlers'[old].closed
                       /\ \A n \in Names : old \notin attached'[n]
                       /\ _cloudwatch_handler' = Len(handlers')]_vars

\* ------------------------------------------------ the log path (C11, C12)

\* The step is a log call (the only operation recorded under this name; the
\* credential clock stands still during it).
log_step == op'.name = "log" /\ utc_now' = utc_now

\* A record is cached and the clock is more than 30 minutes before its
\* expiry.
valid_window ==
    /\ _cached_credentials # None
    /\ _credentials_expiry # NoExpiry
    /\ utc_now < _credentials_expiry - RefreshMarginMinutes

\* C11: a log call made while a record is cached and the clock is more than
\* 30 minutes before its expiry makes no request and leaves the cached
\* record, the config's hash and endpoint and the cloud handler unchanged.
C11_ValidWindowLogIsQuiet ==
    [][(log_step /\ valid_window)
         => /\ op'.fetches = << >>
            /\ op'.events = << >>
            /\ _cached_credentials' = _cached_credentials
            /\ _credentials_expiry' = _credentials_expiry
            /\ config' = config
            /\ _cloudwatch_handler' = _cloudwatch_handler
            /\ handlers' = handlers
            /\ attached' = attached]_vars

\* A log call was made with a cloud handler installed and a record that is
\* still more than 30 minutes from its expiry.
C11_Witness ==
    /\ op.name = "log"
    /\ op.fetches = << >>
    /\ valid_window
    /\ ~gated
    /\ _cloudwatch_handler # 0

\* C12: a log call rotates the handler only if the credential check reported
\* a change and cloud log export is enabled; with cloud span export enabled
\* and cloud log export disabled, a log call that needs a refresh makes its
\* one request, takes over the record, hash and endpoint the endpoint
\* returned, and constructs, closes and swaps no handler.
C12_RotationOnlyWithLogExport ==
    [][log_step
         => /\ op'.events # << >>
                 => op'.result /\ config.enable_log_cloud_export
            /\ (~gated /\ ~config.enable_log_cloud_export)
                 => /\ op'.events = << >>
                    /\ handlers' = handlers
                    /\ attached' = attached
                    /\ _cloudwatch_handler' = _cloudwatch_handler
                    /\ Len(op'.fetches) =
                          (IF needs_refresh(World, FALSE) THEN 1 ELSE 0)
                    /\ op'.fetches = <<"ok">>
                         => /\ _cached_credentials' # None
                            /\ config'._name = _cached_credentials'.hash
                            /\ config'.otlp_endpoint =
                                  _cached_credentials'.otlp_endpoint]_vars

\* With cloud log export disabled, a log call crossed the refresh threshold
\* and its check reported changed credentials.
C12_Witness ==
    /\ ~gated
    /\ ~config.enable_log_cloud_export
    /\ op.name = "log"
    /\ op.result
    /\ op.fetches = <<"ok">>
    /\ config._name = _cached_credentials.hash

\* ------------------------------------------ wrapper errors (C13 - C17)

\* The span of call c recorded exception exc with error status and is ended.
recorded_and_closed(c, exc) ==
    /\ call[c].span.state = "ended"
    /\ call[c].span.status = "error"
    /\ call[c].span.exc = exc

\* C13: when the wrapped function of a sync or non-streaming async call
\* raises, or a wrapped stream raises while it is iterated, the caller or
\* consumer sees that exception, and by then the span has recorded it with
\* error status and has been closed, the close before the raise.
C13_RaisedIsRecordedAndClosed ==
    \A c \in Calls :
       /\ (/\ call[c].pc = "raised"
           /\ call[c].raised \in Raised
           /\ call[c].shape \in {"sync", "async"}
           /\ call[c].span.state # "none")
            => /\ recorded_and_closed(c, call[c].raised)
               /\ lifecycle(c) = <<"open", "close", "raise">>
       /\ (call[c].gen.wrapped /\ call[c].gen.ended \in Raised)
            => recorded_and_closed(c, call[c].gen.ended)

\* How often the wrapper of call c invoked the wrapped function.
calls_made(c) == Len(SelectSeq(call[c].events, LAMBDA e : e = "call"))

\* The wrapper of call c has finished, by returning or by raising.
wrapper_done(c) == call[c].pc \in {"returned", "raised"}

\* C14: when the wrapped function of a sync or async call returns normally,
\* the wrapper returns and raises nothing, also when capturing the return
\* value for the span fails.
C14_CaptureFailureIsNotRaised ==
    \A c \in Calls :
       (/\ call[c].shape \in {"sync", "async"}
        /\ wrapper_done(c)
        /\ calls_made(c) = 1
        /\ call[c].raised \notin Raised)
       => call[c].pc = "returned" /\ call[c].raised = "none"

\* A step in which call c is made.
call_made(c) == call[c].pc = "idle" /\ call'[c].pc # "idle"

\* C15: when a call is made while tracing is initialized and no span comes
\* out of span creation (obtaining the tracer, computing the span name or
\* starting the span raised), the wrapper has called the function exactly
\* once, untraced, and hands on what the function produced: it raises no
\* error of the instrumentation.  For the plain function and the async
\* generator function the wrapper has finished in that step; the coroutine
\* is awaiting the function.
C15_CreationFailureFallsBack ==
    [][\A c \in Calls :
         (is_initialized /\ call_made(c) /\ call'[c].span.state = "none")
            => /\ calls_made(c)' = 1
               /\ ~call'[c].traced
               /\ call'[c].raised # "instrumentation"
               /\ call'[c].shape = "async" => call'[c].pc = "awaiting"
               /\ call'[c].shape = "asyncgen" =>
                      /\ call'[c].pc = "returned"
                      /\ call'[c].gen.state = "created"
                      /\ ~call'[c].gen.wrapped]_vars

\* Call c has a span on which setting the first attributes failed.
attributes_failed(c) ==
    /\ call[c].span.state # "none"
    /\ "service_name" \notin call[c].span.attrs

\* C16: when a call is made while tracing is initialized, the span is
\* created and writing its identity or captured-parameter attributes
\* raises, the wrapper still has called the function exactly once and
\* raises no error of the instrumentation, for the plain function, the
\* coroutine and the async generator function alike.
C16_AttributeFailureFallsBack ==
    [][\A c \in Calls :
         (is_initialized /\ call_made(c) /\ attributes_failed(c)')
            => /\ calls_made(c)' = 1
               /\ call'[c].raised # "instrumentation"
               /\ call'[c].shape = "async" => call'[c].pc = "awaiting"
               /\ call'[c].shape = "asyncgen" =>
                      /\ call'[c].pc = "returned"
                      /\ call'[c].gen.state = "created"]_vars

\* What a wrapper that only passes the call through leaves in the call
\* record: the function called once and its outcome, nothing else.
passed_through(c) ==
    /\ call[c].span = NoSpan
    /\ call[c].ctx = NoCtx
    /\ ~call[c].traced
    /\ c \notin _deferred_spans
    /\ call[c].raised # "instrumentation"
    /\ \/ call[c].pc = "awaiting" /\ call[c].events = <<"call">>
       \/ call[c].pc = "returned" /\ call[c].events = <<"call", "return">>
       \/ call[c].pc = "raised" /\ call[c].events = <<"call", "raise">>
    /\ call[c].gen.state # "none" => ~call[c].gen.wrapped

\* C17: a call of any shape made while tracing is not initialized (never
\* initialized, or shut down) opens no span, registers no deferred span
\* context, calls the function exactly once and hands on its result, its
\* exception or its generator as it is; and a call that has no span never
\* gets one later, whatever happens to it or to the tracer afterwards.
C17_UninitializedPassesThrough ==
    [][\A c \in Calls :
         /\ (tracer_provider = 0 /\ call_made(c))
               => /\ passed_through(c)'
                  /\ call'[c].shape = "sync" => wrapper_done(c)'
                  /\ call'[c].shape = "async" => call'[c].pc = "awaiting"
                  /\ call'[c].shape = "asyncgen" =>
                        /\ call'[c].pc = "returned"
                        /\ call'[c].gen.state = "created"
         /\ (call[c].pc # "idle" /\ passed_through(c)) => passed_through(c)']_vars

\* Tracing was never initialized; a coroutine was called, returned an async
\* generator, and the consumer has taken an item from it.
C17_Witness ==
    /\ providers = 0
    /\ \E c \in Calls :
         /\ call[c].shape = "async"
         /\ passed_through(c)
         /\ call[c].gen.state # "none"
         /\ call[c].gen.got # << >>

\* Minutes from now until the cached record expires.
remaining == _credentials_expiry - utc_now

\* C18: needs_refresh(force) is true exactly when force is true, or no
\* record or no expiry is cached, or at most 30 minutes remain until the
\* expiry; so it is false with 2 hours remaining, true with 15 minutes
\* remaining and true with exactly 30 minutes remaining.
C18_NeedsRefreshExactly ==
    /\ \A force \in BOOLEAN :
         needs_refresh(World, force)
            <=> \/ force
                \/ _cached_credentials = None
                \/ _credentials_expiry = NoExpiry
                \/ remaining <= 30
    /\ (_cached_credentials # None /\ _credentials_expiry # NoExpiry)
          => /\ remaining = 120 => ~needs_refresh(World, FALSE)
             /\ remaining = 15 => needs_refresh(World, FALSE)
             /\ remaining = 30 => needs_refresh(World, FALSE)

\* A record is cached and now is exactly 30 minutes before its expiry.
C18_Witness ==
    /\ _cached_credentials # None
    /\ _credentials_expiry # NoExpiry
    /\ remaining = 30
    /\ needs_refresh(World, FALSE)

\* The config carries the identity hash and the endpoint of the cached
\* record.
config_matches_record ==
    /\ config._name = _cached_credentials.hash
    /\ config.otlp_endpoint = _cached_credentials.otlp_endpoint

\* C19: in every state reached through refreshes, successful or failed,
\* whenever a record is cached the config's identity hash and endpoint are
\* that record's; and a successful refresh leaves a record all of whose
\* fields come from the one response, never a mix of the old record and
\* the new one.
C19_ConfigFollowsRecord ==
    /\ [](_cached_credentials # None => config_matches_record)
    /\ [][(op'.fetches # << >> /\ op'.fetches[Len(op'.fetches)] = "ok"
             /\ utc_now' = utc_now)
            => /\ _cached_credentials' # None
               /\ \E b \in Bodies :
                    /\ _cached_credentials'.aws_access_key_id = b.aws_access_key_id
                    /\ _cached_credentials'.hash = b.hash
                    /\ _cached_credentials'.otlp_endpoint = b.otlp_endpoint
                    /\ config'._name = b.hash
                    /\ config'.otlp_endpoint = b.otlp_endpoint]_vars

\* A forced refresh succeeded and the config carries the second identity.
C19_Witness ==
    /\ op.name = "force_refresh"
    /\ op.fetches = <<"ok">>
    /\ _cached_credentials # None
    /\ _cached_credentials.hash = 2
    /\ config_matches_record

\* The items 1..n in their order.
in_order(n) == [i \in 1..n |-> i]

\* Call c handed out a generator wrapped by _trace_async_generator.
streams(c) == call[c].gen.state # "none" /\ call[c].gen.wrapped

\* The consumer of call c's generator has so far received every item the
\* wrapped generator produced, in order, and nothing else; and the
\* attribute generator.completed is not on the span while the stream is
\* still open.
delivers(c) ==
    /\ call[c].gen.got = in_order(call[c].gen.yielded)
    /\ call[c].gen.state \in {"created", "suspended"}
          => "generator.completed" \notin call[c].span.attrs

shutdown_step == op'.name = "shutdown_logger" /\ utc_now' = utc_now

\* C21: shutdown_logger() flushes the global cloud handler twice and then
\* closes it, in that order; afterwards the global cloud-handler reference
\* and the global logger are None and the logger that was the global one
\* has no handler attached; and nothing is raised.
C21_ShutdownFlushesClosesDetaches ==
    [][shutdown_step
         => LET cw == _cloudwatch_handler
                g == _global_logger
            IN /\ cw # 0 =>
                    /\ Len(op'.events) >= 3
                    /\ SubSeq(op'.events, 1, 3) =
                          <<Event("flush", cw), Event("flush", cw),
                            Event("close", cw)>>
                    /\ handlers'[cw].closed
               /\ _cloudwatch_handler' = 0
               /\ _global_logger' = "None"
               /\ g # "None" => attached'[g] = {}
               /\ ~op'.raised]_vars

\* ---------------------------------------------------- get_logger (C22)

\* The step is a call of get_logger.
get_logger_step == op'.name = "get_logger" /\ utc_now' = utc_now

\* C22: get_logger raises (RuntimeError, logger not initialized) exactly in
\* the states where the global logger is None, before initialisation and
\* again after shutdown, and then changes nothing; in every other state it
\* raises nothing, hands out a logger that exists, and leaves the global
\* logger as it is.
C22_GetLoggerRaisesIffUninitialized ==
    [][get_logger_step
         => /\ op'.raised <=> _global_logger = "None"
            /\ op'.raised
                  => /\ op'.events = << >> /\ op'.fetches = << >>
                     /\ UNCHANGED <<handlers, attached, _cloudwatch_handler,
                                    loggers, _global_logger>>
            /\ ~op'.raised
                  => /\ op'.logger \in loggers'
                     /\ _global_logger \in loggers'
                     /\ _global_logger' = _global_logger]_vars

\* The logger was initialized and shut down, and a get_logger call after
\* that raised.
C22_Witness ==
    /\ op.name = "get_logger"
    /\ op.raised
    /\ loggers # {}
    /\ _global_logger = "None"

\* --------------------------------------------- logger construction (C23)

\* The step is initialize_logger(config): the construction of the global
\* logger with an empty credential cache.
construction_step == op'.name = "initialize_logger" /\ utc_now' = utc_now

\* The handlers the step constructed.
constructed == {h \in 1..Len(handlers') : h > Len(handlers)}

\* C23: the construction of a logger takes exactly one sink path.  With
\* local_mode or without cloud span export it installs the local span-event
\* sink, requests no credentials and creates no cloud handler.  Otherwise it
\* requests credentials, installs no local sink, and creates a cloud
\* handler, attached and registered as the global handler, only if cloud
\* log export is enabled too.
C23_ExactlyOneSinkPath ==
    [][construction_step
         => IF config.local_mode \/ ~config.enable_span_cloud_export
            THEN /\ op'.fetches = << >>
                 /\ Cardinality(constructed) = 1
                 /\ \A h \in constructed :
                       /\ handlers'[h].kind = "span_event"
                       /\ h \in attached'[op'.logger]
                       /\ op'.events = <<Event("add", h)>>
                 /\ _cloudwatch_handler' = _cloudwatch_handler
            ELSE /\ Len(op'.fetches) >= 1
                 /\ Cardinality(constructed) <= 1
                 /\ \A h \in constructed :
                       /\ handlers'[h].kind = "cloud"
                       /\ config.enable_log_cloud_export
                       /\ h \in attached'[op'.logger]
                       /\ _cloudwatch_handler' = h
                 /\ constructed = {}
                       => /\ attached' = attached
                          /\ _cloudwatch_handler' = _cloudwatch_handler
                 /\ ~config.enable_log_cloud_export => constructed = {}]_vars

\* A logger constructed on the cloud path with cloud log export: credentials
\* were fetched and the one handler it has is the global cloud handler.
C23_Witness ==
    /\ op.name = "initialize_logger"
    /\ ~gated /\ config.enable_log_cloud_export
    /\ op.fetches = <<"ok">>
    /\ _cloudwatch_handler # 0
    /\ handlers[_cloudwatch_handler].kind = "cloud"
    /\ attached["svc"] = {_cloudwatch_handler}

\* ------------------------------------------------ re-initialisation (C24)

\* The step is a call of init(**kwargs) with parameters.
init_step ==
    /\ op'.name = "init"
    /\ clock' = clock /\ call' = call /\ tracer_provider' # 0

\* C24: a call of init() with keyword parameters made while tracing is
\* initialized re-initializes: the provider it returns is not the provider
\* there was, it is the active provider afterwards, and the active
\* configuration has the values of the parameters.
C24_InitWithParametersReinitializes ==
    [][(init_step /\ tracer_provider # 0)
         => /\ op'.provider # tracer_provider
            /\ tracer_provider' = op'.provider
            /\ config'.enable_log_cloud_export
                  = op'.kwargs.enable_log_cloud_export]_vars

\* ---------------------------------------------------- force_refresh (C25)

\* The step is a call of CredentialManager.force_refresh().
force_refresh_step == op'.name = "force_refresh" /\ utc_now' = utc_now

\* C25: force_refresh() returns True exactly when the refresh it performed
\* succeeded, that is the verification endpoint answered with a usable
\* record and the cache was replaced by it, whatever was cached before.
C25_ForceRefreshResultIffSucceeded ==
    [][force_refresh_step
         => (op'.result <=> op'.fetches = <<"ok">>)]_vars

\* ----------------------------------------------- correlation filter (C26)

\* The current span of the last filtered record has a valid trace context.
valid_context == op.span.has_ctx /\ op.span.trace_id # 0

\* C26: the correlation filter accepts every record.  Without a valid trace
\* context (none, or trace id 0) the record gets the four sentinels
\* no-trace, no-span, no-parent and unknown.  With a valid context its
\* parent_span_id is no-parent exactly when the span's parent is absent,
\* has no span id, or has span id 0.
C26_FilterAcceptsAndMarks ==
    op.name = "filter" =>
       /\ op.record.accepted
       /\ ~valid_context
             => /\ op.record.trace_id = Text("no-trace")
                /\ op.record.span_id = Text("no-span")
                /\ op.record.parent_span_id = Text("no-parent")
                /\ op.record.span_name = Text("unknown")
       /\ valid_context
             => /\ op.record.trace_id # Text("no-trace")
                /\ op.record.parent_span_id = Text("no-parent")
                      <=> \/ op.span.parent.kind = "absent"
                          \/ op.span.parent.kind = "no_span_id"
                          \/ op.span.parent.span_id = 0

\* A record filtered under a valid span whose parent context has span id 0.
C26_Witness ==
    /\ op.name = "filter"
    /\ valid_context
    /\ op.span.parent.kind = "ctx"
    /\ op.span.parent.span_id = 0
    /\ op.record.parent_span_id = Text("no-parent")
    /\ op.record.span_id = [text |-> "", chars |-> format(MaxId, 16)]

\* ------------------------------------------------ streaming marker (C27)

\* C27: every traced call that handed a stream to its caller, whether a
\* coroutine that returned an async generator or an object holding one, or
\* an async generator function, has streaming.enabled on its span from the
\* moment the stream is handed out.
C27_StreamsAreMarked ==
    \A c \in Calls :
       (streams(c) /\ call[c].pc = "returned")
          => "streaming.enabled" \in call[c].span.attrs

\* -------------------------------------- scope exit in another context (C28)

\* close_span of call c met a scope exit that failed because the context
\* was created in a different task.
detached(c) ==
    \E i \in 1..Len(call[c].events) : call[c].events[i] = "detach_failed"

\* C28: when the scope exit inside close_span fails because the context was
\* created in a different task, the error stays inside close_span, the span
\* is ended and the deferred context is marked closed; a later close or
\* sweep then changes neither the span nor the number of scope exits.
C28_DetachFailureStillCloses ==
    /\ [](\A c \in Calls :
            detached(c)
               => /\ call[c].ctx.closed
                  /\ call[c].span.state = "ended"
                  /\ call[c].exits = 1
                  /\ call[c].raised # "instrumentation"
                  /\ Len(SelectSeq(call[c].events,
                                   LAMBDA e : e = "close")) = 1)
    /\ [][\A c \in Calls :
            detached(c)
               => /\ call'[c].span = call[c].span
                  /\ call'[c].exits = call[c].exits
                  /\ call'[c].ctx.closed]_vars

\* A stream was consumed to its end, the scope exit of its cleanup failed
\* in a different context, and a sweep ran afterwards.
C28_Witness ==
    \E c \in Calls :
       /\ detached(c)
       /\ call[c].gen.ended = "exhausted"
       /\ call[c].span.state = "ended"
       /\ call[c].ctx.closed
       /\ tracer_provider = 0
       /\ providers = 1

\* ------------------------------------------------------ the sweep (C29)

\* The step is a call of _force_close_deferred_spans: the latest operation
\* is a sweep, and no call or generator moved.
sweep_step ==
    /\ op'.name = "sweep"
    /\ clock' = clock
    /\ tracer_provider' = tracer_provider
    /\ \A c \in Calls : /\ call'[c].pc = call[c].pc
                        /\ call'[c].gen = call[c].gen

\* The age of the deferred context of call c.
age(c) == clock - call[c].ctx.created_at

endpoint_succeeds ==
    \A i \in 1..Len(op.fetches) : op.fetches[i] = "ok"

\* The cache holds a record that needs no refresh.
fresh == _cached_credentials # None /\ ~needs_refresh(World, FALSE)

\* C30: outside local mode and with cloud span export, a log call made
\* while needs_refresh() is true requests credentials, and when that
\* request fails needs_refresh() is still true afterwards, so the next log
\* call tries again; and once the verification endpoint keeps succeeding,
\* a cache that needs a refresh leads to a cache holding a fresh record,
\* after which the log calls stop requesting.
C30_RetryUntilFresh ==
    /\ [][(log_step /\ ~gated /\ needs_refresh(World, FALSE))
            => /\ Len(op'.fetches) >= 1
               /\ op'.fetches = <<"failed">>
                     => (needs_refresh(World, FALSE))']_vars
    /\ (~gated /\ <>(loggers # {}) /\ <>[]endpoint_succeeds)
          => (needs_refresh(World, FALSE) ~> fresh)

\* ------------------------------------------- spans of the async wrappers

\* The wrapper of call c is over: it returned or raised to its caller.
wrapper_over(c) == call[c].pc \in {"returned", "raised"}

\* The span of call c was entered by the async wrapper or by the async
\* generator wrapper and has not been exited.
left_entered(c) ==
    /\ call[c].shape \in {"async", "asyncgen"}
    /\ is_recording(call[c].span)

\* C31: every span opened by the async wrapper or the async generator
\* wrapper is eventually closed once the wrapper is over, also when
\* writing the attributes failed and the function ran untraced: no span
\* stays entered and never exited.
C31_EventuallyExited ==
    \A c \in Calls :
       (wrapper_over(c) /\ left_entered(c)) ~> ~is_recording(call[c].span)

\* ------------------------------------- cloud handlers of a logger (C32-C34)

\* The cloud handlers attached to the underlying logger called n.
cloud_handlers(n) == {h \in attached[n] : handlers[h].kind = "cloud"}

\* The cloud handlers attached to n that have not been closed.
open_cloud_handlers(n) == {h \in cloud_handlers(n) : ~handlers[h].closed}

\* C32: between the first attachment of a cloud handler to a logger and
\* shutdown, every record the logger emits finds an attached cloud handler
\* that has not been closed: a log call on a logger that has a cloud
\* handler attached leaves it with an open cloud handler attached, whatever
\* the refresh or rotation inside the log call did.
C32_EmitsThroughOpenHandler ==
    [][\A n \in Names :
         (/\ log_step /\ op' # op /\ op'.logger = n
          /\ _global_logger # "None"
          /\ cloud_handlers(n) # {})
            => open_cloud_handlers(n)' # {}]_vars

\* C33: at any time each underlying logger has at most one cloud handler
\* attached.
C33_AtMostOneCloudHandler ==
    \A n \in Names : Cardinality(cloud_handlers(n)) <= 1

\* get_logger() and get_logger(name) for every name
GetAnyLogger == GetLogger(Names)

NextShutdown ==
    \/ InitializeLogger
    \/ GetAnyLogger
    \/ LogCall
    \/ Shutdown

\* A process that initializes logging, hands out named loggers, logs and
\* calls traceroot.shutdown().
SpecShutdown == Init /\ [][NextShutdown]_vars

\* Every cloud handler that was ever created.
created_cloud_handlers == {h \in 1..Len(handlers) : handlers[h].kind = "cloud"}

\* C34: when shutdown() has returned, every cloud log handler that was ever
\* created, by the global logger, by a logger of get_logger(name) or by a
\* rotation, has been closed.
C34_ShutdownClosesEveryCloudHandler ==
    [][shutdown_step
         => \A h \in created_cloud_handlers' : handlers'[h].closed]_vars

\* ------------------------------------------------ the closed flag (C35)

\* C35: whenever the closed flag of a deferred span context is true, its
\* span has been ended (is no longer recording), on every path of
\* close_span including its error paths.
C35_ClosedMeansEnded ==
    \A c \in Calls : call[c].ctx.closed => ~is_recording(call[c].span)

\* ------------------------------------- force-close during a stream (C36)

\* The deferred context of call c was closed while its stream is still
\* open: only the timeout sweep or shutdown does that.
force_closed_open(c) ==
    /\ streams(c)
    /\ call[c].ctx.closed
    /\ call[c].gen.state \in {"created", "suspended"}

\* C36: once a deferred span was force-closed while its stream is still
\* being consumed, the consumer goes on receiving the items in order, and
\* the generator's cleanup raises nothing, writes no attribute to the
\* ended span and does not exit or close the span a second time.
C36_ForceCloseLeavesStreamAlone ==
    [][\A c \in Calls :
         force_closed_open(c)
            => /\ call'[c].gen.got = in_order(call'[c].gen.yielded)
               /\ call'[c].events = call[c].events
               /\ call'[c].exits = call[c].exits
               /\ call'[c].raised = call[c].raised
               /\ call'[c].ctx.closed
               /\ ~is_recording(call[c].span)
                     => call'[c].span = call[c].span]_vars

\* A stream whose span was force-closed before its end was consumed to
\* exhaustion: the consumer has every item, the span carries force_closed
\* and the cleanup wrote no generator.completed to it.
C36_Witness ==
    \E c \in Calls :
       /\ streams(c)
       /\ call[c].gen.ended = "exhausted"
       /\ call[c].gen.got = in_order(MaxItems)
       /\ call[c].ctx.closed
       /\ call[c].span.state = "ended"
       /\ "force_closed" \in call[c].span.attrs
       /\ "generator.completed" \notin call[c].span.attrs
       /\ call[c].exits = 1

\* ------------------------------------- requests of one log call (C37)

\* C37: a single log call issues at most one request to the credential
\* verification endpoint, also when it crosses the refresh threshold and
\* rotates the handler.
C37_LogCallFetchesAtMostOnce ==
    [][(log_step /\ op' # op) => Len(op'.fetches) <= 1]_vars

\* ------------------------------------- freshness after a refresh (C38)

\* The step is a CredentialManager call whose last request succeeded: the
\* record the endpoint returned was cached.
successful_refresh ==
    /\ manager_step
    /\ op'.fetches # << >>
    /\ op'.fetches[Len(op'.fetches)] = "ok"

\* C38: immediately after any successful refresh, needs_refresh() without
\* force is false, whatever expiry the endpoint returned.
C38_FreshAfterSuccessfulRefresh ==
    [][successful_refresh => ~(needs_refresh(World, FALSE))']_vars

\* ------------------------------- status set by the generator wrapper (C39)

\* The step runs the finally block of call c's traced generator on a
\* deferred context that was still open: the generator wrapper closes it.
wrapper_closes(c) ==
    /\ closes(c)
    /\ call[c].gen.state \in {"created", "suspended"}
    /\ call'[c].gen.state = "done"
    /\ call'[c].ctx.closed

\* C39: a deferred span closed by the generator wrapper gets ERROR status
\* and a recorded exception exactly when the wrapped generator ended by
\* raising an error derived from Exception; on exhaustion, on an early
\* close by the consumer and on cancellation it gets OK status, no
\* recorded exception and generator.completed.
C39_ErrorStatusIffException ==
    [][\A c \in Calls :
         wrapper_closes(c)
            => LET sp == call'[c].span
                   how == call'[c].gen.ended
               IN /\ (sp.status = "error") <=> (how = "Exception")
                  /\ (sp.exc # "none") <=> (how = "Exception")
                  /\ how = "Exception" => sp.exc = "Exception"
                  /\ how # "Exception"
                       => /\ how \in {"exhausted", "closed", "dropped",
                                      "BaseException"}
                          /\ sp.status = "ok"
                          /\ "generator.completed" \in sp.attrs]_vars

\* A traced stream ended by an Exception of the wrapped generator, and the
\* wrapper closed its span with error status and the exception recorded.
C39_Witness ==
    \E c \in Calls :
       /\ streams(c)
       /\ call[c].gen.ended = "Exception"
       /\ call[c].ctx.closed
       /\ call[c].span.state = "ended"
       /\ call[c].span.status = "error"
       /\ call[c].span.exc = "Exception"
       /\ "force_closed" \notin call[c].span.attrs

\* ------------------------------------- the traced generator's place (C40)

\* A traced coroutine returns ret while tracing is initialized, and the
\* wrapper hands its caller ret or the object with the traced generator.
\* The operation record keeps both.
ReturnsObject ==
    /\ is_initialized
    /\ \E ret \in Returned :
         op' = [NoOp EXCEPT !.name = "return_object", !.ret = ret,
                            !.stored = store_traced_generator(ret)]
    /\ UNCHANGED <<tracerVars, config, credVars, utc_now, handlers, attached,
                   _cloudwatch_handler, _global_logger, loggers>>

NextStoreBack ==
    \/ InitializeTracing
    \/ ReturnsObject

\* Traced coroutines returning values, streams and objects holding streams.
SpecStoreBack == Init /\ [][NextStoreBack]_vars

\* C40: when a coroutine returns a wrapper object holding an async
\* generator, the traced generator is stored into the attribute the async
\* generator was extracted from, body_iterator or content, and no other
\* attribute of the object is overwritten.
C40_StoredWhereExtracted ==
    (op.name = "return_object" /\ op.ret.kind = "object")
       => LET src == _extract_async_generator(op.ret)
          IN /\ src = "None" => op.stored = op.ret
             /\ src # "None" => op.stored = [op.ret EXCEPT ![src] = "traced"]

====
